---- MODULE Spec2Model ----
(* Diagram-AI-Agent: the LLM response normalizer and repairer                *)
(* (Server/flowchart_generator.py) and the HTTP endpoint that calls it       *)
(* (Server/app.py).  Texts are sequences of one-character strings, so every  *)
(* regular expression and string method of the source is computed character *)
(* by character.                                                             *)
EXTENDS Integers, Sequences, FiniteSets, TLC

(* ------------------------------------------------------------------------ *)
(* Characters and literals                                                  *)
(* ------------------------------------------------------------------------ *)

\* Python's \s and str.strip() class, restricted to the characters texts use.
Whitespace == {" ", "\t", "\n", "\r"}

\* The digits of \d.
Digits == {"0", "1", "2", "3", "4", "5", "6", "7", "8", "9"}

\* Python's \w class (ASCII part): letters, digits and the underscore.
WordChars ==
  {"a", "b", "c", "d", "e", "f", "g", "h", "i", "j", "k", "l", "m", "n", "o",
   "p", "q", "r", "s", "t", "u", "v", "w", "x", "y", "z",
   "A", "B", "C", "D", "E", "F", "G", "H", "I", "J", "K", "L", "M", "N", "O",
   "P", "Q", "R", "S", "T", "U", "V", "W", "X", "Y", "Z", "_"} \cup Digits

\* The line boundaries str.splitlines() splits on, restricted likewise.
LineBreaks == {"\n", "\r"}

Kw_graph == <<"g", "r", "a", "p", "h">>
Kw_classDiagram == <<"c", "l", "a", "s", "s", "D", "i", "a", "g", "r", "a", "m">>
Kw_sequenceDiagram == <<"s", "e", "q", "u", "e", "n", "c", "e", "D", "i", "a", "g", "r", "a", "m">>
Kw_erDiagram == <<"e", "r", "D", "i", "a", "g", "r", "a", "m">>
Kw_gantt == <<"g", "a", "n", "t", "t">>
Kw_mindmap == <<"m", "i", "n", "d", "m", "a", "p">>
Kw_stateDiagram_v2 == <<"s", "t", "a", "t", "e", "D", "i", "a", "g", "r", "a", "m", "-", "v", "2">>
Kw_timeline == <<"t", "i", "m", "e", "l", "i", "n", "e">>
Kw_gitGraph == <<"g", "i", "t", "G", "r", "a", "p", "h">>
Kw_C4Context == <<"C", "4", "C", "o", "n", "t", "e", "x", "t">>
Kw_sankey == <<"s", "a", "n", "k", "e", "y">>
Kw_flowchart == <<"f", "l", "o", "w", "c", "h", "a", "r", "t">>
Kw_pie == <<"p", "i", "e">>
Kw_quadrantChart == <<"q", "u", "a", "d", "r", "a", "n", "t", "C", "h", "a", "r", "t">>
Kw_requirementDiagram == <<"r", "e", "q", "u", "i", "r", "e", "m", "e", "n", "t", "D", "i", "a", "g", "r", "a", "m">>
Kw_journey == <<"j", "o", "u", "r", "n", "e", "y">>
Kw_xyChart == <<"x", "y", "C", "h", "a", "r", "t">>

\* The alternation of the validation regular expression.
Keywords ==
  {Kw_graph, Kw_classDiagram, Kw_sequenceDiagram, Kw_erDiagram, Kw_gantt,
   Kw_mindmap, Kw_stateDiagram_v2, Kw_timeline, Kw_gitGraph, Kw_C4Context,
   Kw_sankey, Kw_flowchart, Kw_pie, Kw_quadrantChart, Kw_requirementDiagram,
   Kw_journey, Kw_xyChart}

Lit_class == <<"c", "l", "a", "s", "s">>
Lit_quadrant == <<"q", "u", "a", "d", "r", "a", "n", "t">>
Lit_xAxis == <<"x", "A", "x", "i", "s">>
Lit_yAxis == <<"y", "A", "x", "i", "s">>
Lit_label == <<"l", "a", "b", "e", "l", ":">>
\* The grave accent (U+0060), which the lexer of the tools cannot read inside a
\* string: the one character of a text that is spelled by a name.
Backtick == "BT"

Lit_fence == <<Backtick, Backtick, Backtick>>
Lit_code == <<"c", "o", "d", "e">>
Lit_error == <<"e", "r", "r", "o", "r">>

(* ------------------------------------------------------------------------ *)
(* String primitives                                                        *)
(* ------------------------------------------------------------------------ *)

Min(S) == CHOOSE x \in S : \A y \in S : x <= y

Max(S) == CHOOSE x \in S : \A y \in S : y <= x

\* s[i..j], empty when j < i.
Slice(s, i, j) == IF j < i THEN <<>> ELSE SubSeq(s, i, j)

\* The literal lit stands in s at position i.
HasAt(s, i, lit) ==
  /\ i >= 1
  /\ i + Len(lit) - 1 <= Len(s)
  /\ \A k \in 1..Len(lit) : s[i + k - 1] = lit[k]

\* str.startswith
StartsWith(s, lit) == HasAt(s, 1, lit)

\* The first position at or after i that is not in class (Len(s)+1 if none):
\* where a greedy class* that starts at i stops.
SkipClass(s, i, class) ==
  IF i > Len(s) THEN i
  ELSE Min({j \in i..(Len(s) + 1) : j = Len(s) + 1 \/ s[j] \notin class})

SkipWs(s, i) == SkipClass(s, i, Whitespace)

\* The first position at or after i holding a character of class (Len(s)+1 if none).
FindClass(s, i, class) ==
  IF i > Len(s) THEN i
  ELSE Min({j \in i..(Len(s) + 1) : j = Len(s) + 1 \/ s[j] \in class})

\* str.strip()
Strip(s) ==
  LET keep == {i \in 1..Len(s) : s[i] \notin Whitespace}
  IN IF keep = {} THEN <<>> ELSE SubSeq(s, Min(keep), Max(keep))

\* str.count of a one-character string.
Count(s, c) == Cardinality({i \in 1..Len(s) : s[i] = c})

\* ^ under re.MULTILINE: the start of the text or just after a line feed.
AtLineStart(s, i) == i = 1 \/ (i >= 2 /\ i <= Len(s) + 1 /\ s[i - 1] = "\n")

\* $ under re.MULTILINE: the end of the text or just before a line feed.
AtLineEnd(s, i) == i = Len(s) + 1 \/ (i >= 1 /\ i <= Len(s) /\ s[i] = "\n")

\* expr evaluated once and handed to F as a value: what an assignment to a
\* local variable does in the source.
Eval(expr, F(_)) == CHOOSE r \in {F(v) : v \in {expr}} : TRUE

(* ------------------------------------------------------------------------ *)
(* The six repair functions                                                 *)
(* Each re.sub is a scan F[i] from position i: where the pattern matches,   *)
(* the replacement and the scan from the end of the match; elsewhere the    *)
(* character and the scan from the next position.                           *)
(* ------------------------------------------------------------------------ *)

\* re.sub(pattern, repl, code, flags=re.MULTILINE) of fix_class_diagram_syntax
\* with pattern = ^(class\s+\w+)([+\-#].+)$ and repl its nested function.
ClassSub(s) ==
  LET F[i \in 1..(Len(s) + 1)] ==
        IF i > Len(s) THEN <<>>
        ELSE
          LET j == i + Len(Lit_class)           \* after "class"
              k == SkipWs(s, j)                 \* after \s+
              w == SkipClass(s, k, WordChars)   \* after \w+
              e == FindClass(s, w, {"\n"})      \* where .+ stops: the end of the line
              matches ==
                /\ AtLineStart(s, i)
                /\ HasAt(s, i, Lit_class)
                /\ k > j
                /\ w > k
                /\ w <= Len(s)
                /\ s[w] \in {"+", "-", "#"}
                /\ e >= w + 2
              line == Slice(s, i, e - 1)
              group1 == Slice(s, i, w - 1)
              group2 == Slice(s, w, e - 1)
          IN IF matches
             THEN (IF \E p \in 1..Len(line) : line[p] = "{"
                   THEN line
                   ELSE group1 \o <<" ", "{", "\n", " ", " ">> \o group2 \o <<"\n", "}">>)
                  \o F[e]
             ELSE <<s[i]>> \o F[i + 1]
  IN F[1]

fix_class_diagram_syntax(code) == Eval(code, LAMBDA s : ClassSub(s))

\* re.sub(r'(quadrant)\s+(\d+):', r'\1\2:', code)
QuadrantSub(s) ==
  LET F[i \in 1..(Len(s) + 1)] ==
        IF i > Len(s) THEN <<>>
        ELSE
          LET j == i + Len(Lit_quadrant)
              k == SkipWs(s, j)
              d == SkipClass(s, k, Digits)
              matches ==
                /\ HasAt(s, i, Lit_quadrant)
                /\ k > j
                /\ d > k
                /\ d <= Len(s)
                /\ s[d] = ":"
          IN IF matches
             THEN Lit_quadrant \o Slice(s, k, d - 1) \o <<":">> \o F[d + 1]
             ELSE <<s[i]>> \o F[i + 1]
  IN F[1]

fix_quadrant_chart(code) == Eval(code, LAMBDA s : QuadrantSub(s))

\* re.sub(r'\s*--\s*', ' -- ', code)
DashSub(s) ==
  LET F[i \in 1..(Len(s) + 1)] ==
        IF i > Len(s) THEN <<>>
        ELSE IF HasAt(s, SkipWs(s, i), <<"-", "-">>)
             THEN <<" ", "-", "-", " ">> \o F[SkipWs(s, SkipWs(s, i) + 2)]
             ELSE <<s[i]>> \o F[i + 1]
  IN F[1]

\* re.sub(r'\s*-->\s*', ' --> ', code)
ArrowSub(s) ==
  LET F[i \in 1..(Len(s) + 1)] ==
        IF i > Len(s) THEN <<>>
        ELSE IF HasAt(s, SkipWs(s, i), <<"-", "-", ">">>)
             THEN <<" ", "-", "-", ">", " ">> \o F[SkipWs(s, SkipWs(s, i) + 3)]
             ELSE <<s[i]>> \o F[i + 1]
  IN F[1]

fix_sankey(code) ==
  Eval(code, LAMBDA s : Eval(DashSub(s), LAMBDA t : ArrowSub(t)))

\* str.splitlines(): the lines, without their line breaks; "\r\n" is one
\* break, and a final break opens no empty last line.
SplitLines(s) ==
  LET F[i \in 1..(Len(s) + 2)] ==
        IF i > Len(s) THEN <<>>
        ELSE
          LET b == FindClass(s, i, LineBreaks)
              next == IF b <= Len(s) /\ s[b] = "\r" /\ b + 1 <= Len(s) /\ s[b + 1] = "\n"
                      THEN b + 2 ELSE b + 1
          IN <<Slice(s, i, b - 1)>> \o F[next]
  IN F[1]

\* "\n".join(lines)
JoinLines(lines) ==
  LET F[n \in 1..(Len(lines) + 1)] ==
        IF n > Len(lines) THEN <<>>
        ELSE IF n = Len(lines) THEN lines[n]
        ELSE lines[n] \o <<"\n">> \o F[n + 1]
  IN F[1]

\* The body of fix_journey's loop for one line.
JourneyLine(line) ==
  LET isStep ==
        /\ Len(line) >= 1
        /\ line[1] \in Whitespace
        /\ SkipWs(line, 1) <= Len(line)      \* re.match(r'^\s+\S+', line)
  IN IF isStep /\ Count(line, ":") > 2
     THEN LET colons == {p \in 1..Len(line) : line[p] = ":"}
              p2 == Max(colons)                  \* before parts[-1]
              p1 == Max(colons \ {p2})           \* before parts[-2]
              step == Strip(Slice(line, 1, p1 - 1))
          IN step \o <<":", " ">> \o Strip(Slice(line, p1 + 1, p2 - 1))
                  \o <<":", " ">> \o Strip(Slice(line, p2 + 1, Len(line)))
     ELSE line

fix_journey(code) ==
  Eval(code, LAMBDA s :
    Eval(SplitLines(s), LAMBDA lines :
      Eval([n \in 1..Len(lines) |-> Eval(lines[n], LAMBDA line : JourneyLine(line))],
           LAMBDA fixed_lines : JoinLines(fixed_lines))))

\* re.sub(r'(xAxis|yAxis)\s+label:', r'\1 label:', code)
AxisSub(s) ==
  LET F[i \in 1..(Len(s) + 1)] ==
        IF i > Len(s) THEN <<>>
        ELSE
          LET j == i + Len(Lit_xAxis)
              k == SkipWs(s, j)
              matches ==
                /\ HasAt(s, i, Lit_xAxis) \/ HasAt(s, i, Lit_yAxis)
                /\ k > j
                /\ HasAt(s, k, Lit_label)
          IN IF matches
             THEN Slice(s, i, j - 1) \o <<" ">> \o Lit_label \o F[k + Len(Lit_label)]
             ELSE <<s[i]>> \o F[i + 1]
  IN F[1]

fix_xy_chart(code) == Eval(code, LAMBDA s : AxisSub(s))

\* re.sub(r'\{\s*', '{\n  ', code)
OpenBraceSub(s) ==
  LET F[i \in 1..(Len(s) + 1)] ==
        IF i > Len(s) THEN <<>>
        ELSE IF s[i] = "{"
             THEN <<"{", "\n", " ", " ">> \o F[SkipWs(s, i + 1)]
             ELSE <<s[i]>> \o F[i + 1]
  IN F[1]

\* re.sub(r'\s*\}', '\n}', code)
CloseBraceSub(s) ==
  LET F[i \in 1..(Len(s) + 1)] ==
        IF i > Len(s) THEN <<>>
        ELSE IF SkipWs(s, i) <= Len(s) /\ s[SkipWs(s, i)] = "}"
             THEN <<"\n", "}">> \o F[SkipWs(s, i) + 1]
             ELSE <<s[i]>> \o F[i + 1]
  IN F[1]

fix_requirement_diagram(code) ==
  Eval(code, LAMBDA s : Eval(OpenBraceSub(s), LAMBDA t : CloseBraceSub(t)))

(* ------------------------------------------------------------------------ *)
(* Repair dispatch and keyword validation                                   *)
(* ------------------------------------------------------------------------ *)

\* The `if code.startswith(...)` statements of post_process_code, in order.
RepairTable ==
  << [keyword |-> Kw_classDiagram, repair |-> "fix_class_diagram_syntax"],
     [keyword |-> Kw_quadrantChart, repair |-> "fix_quadrant_chart"],
     [keyword |-> Kw_sankey, repair |-> "fix_sankey"],
     [keyword |-> Kw_journey, repair |-> "fix_journey"],
     [keyword |-> Kw_xyChart, repair |-> "fix_xy_chart"],
     [keyword |-> Kw_requirementDiagram, repair |-> "fix_requirement_diagram"] >>

\* The call of the repair function of that name.
CallRepair(name, code) ==
  CASE name = "fix_class_diagram_syntax" -> fix_class_diagram_syntax(code)
    [] name = "fix_quadrant_chart" -> fix_quadrant_chart(code)
    [] name = "fix_sankey" -> fix_sankey(code)
    [] name = "fix_journey" -> fix_journey(code)
    [] name = "fix_xy_chart" -> fix_xy_chart(code)
    [] name = "fix_requirement_diagram" -> fix_requirement_diagram(code)

\* One `if` of post_process_code on the code so far.
RepairStep(st, row) ==
  IF StartsWith(st.code, row.keyword)
  THEN [code |-> CallRepair(row.repair, st.code), calls |-> Append(st.calls, row.repair)]
  ELSE st

\* post_process_code as it would be if each `if` looked for its keyword after
\* the leading whitespace, as the final validation does.
PostProcessTrace_lstrip(code) ==
  LET step(st, row) ==
        IF HasAt(st.code, SkipWs(st.code, 1), row.keyword)
        THEN [code |-> CallRepair(row.repair, st.code), calls |-> Append(st.calls, row.repair)]
        ELSE st
      F[n \in 0..Len(RepairTable)] ==
        IF n = 0 THEN [code |-> code, calls |-> <<>>]
        ELSE Eval(F[n - 1], LAMBDA st : step(st, RepairTable[n]))
  IN F[Len(RepairTable)]

\* post_process_code with the repair functions it calls, in call order.
PostProcessTrace(code) ==
  LET F[n \in 0..Len(RepairTable)] ==
        IF n = 0 THEN [code |-> code, calls |-> <<>>]
        ELSE Eval(F[n - 1], LAMBDA st : RepairStep(st, RepairTable[n]))
  IN F[Len(RepairTable)]

post_process_code(code) == Eval(code, LAMBDA c : PostProcessTrace(c).code)

\* The keyword check as it would be if the pattern lacked its \s*.
StartsWithKeyword_no_ws(code) ==
  \E kw \in Keywords : HasAt(code, 1, kw)

\* re.search(r'^\s*(graph|classDiagram|...|xyChart)', code) of process_query:
\* no flag, so ^ is the start of the text only.
StartsWithKeyword(code) ==
  \E kw \in Keywords : HasAt(code, SkipWs(code, 1), kw)

\* validate_mermaid of app.py: the same pattern under re.MULTILINE, so ^ is
\* the start of any line.
validate_mermaid(code) ==
  \E p \in 1..(Len(code) + 1) :
    /\ AtLineStart(code, p)
    /\ \E kw \in Keywords : HasAt(code, SkipWs(code, p), kw)

(* ------------------------------------------------------------------------ *)
(* Normalizing the completion text                                          *)
(* ------------------------------------------------------------------------ *)

\* re.IGNORECASE match of "json" at position i.
HasJsonTag(s, i) ==
  /\ i + 3 <= Len(s)
  /\ s[i] \in {"j", "J"}
  /\ s[i + 1] \in {"s", "S"}
  /\ s[i + 2] \in {"o", "O"}
  /\ s[i + 3] \in {"n", "N"}

\* re.sub(r'^```(json)?|```$', '', raw, flags=re.MULTILINE | re.IGNORECASE)
StripFences(raw) ==
  LET F[i \in 1..(Len(raw) + 1)] ==
        IF i > Len(raw) THEN <<>>
        ELSE
          LET j == i + Len(Lit_fence)
          IN IF HasAt(raw, i, Lit_fence) /\ AtLineStart(raw, i)
             THEN F[IF HasJsonTag(raw, j) THEN j + 4 ELSE j]
             ELSE IF HasAt(raw, i, Lit_fence) /\ AtLineEnd(raw, j)
                  THEN F[j]
                  ELSE <<raw[i]>> \o F[i + 1]
  IN F[1]

\* re.sub(r"'(?=\s*:)", '"', cleaned): a single quote that whitespace and then
\* a colon follow becomes a double quote.
NormalizeQuotes(s) ==
  [i \in 1..Len(s) |->
     IF s[i] = "'" /\ SkipWs(s, i + 1) <= Len(s) /\ s[SkipWs(s, i + 1)] = ":"
     THEN "\"" ELSE s[i]]

\* re.search(r'({.*})', cleaned, re.DOTALL): from the first "{" to the last "}".
ExtractJson(cleaned) ==
  LET opens == {i \in 1..Len(cleaned) : cleaned[i] = "{"}
      closes == {i \in 1..Len(cleaned) : cleaned[i] = "}"}
  IN IF opens # {} /\ closes # {} /\ Max(closes) > Min(opens)
     THEN [found |-> TRUE, json_str |-> SubSeq(cleaned, Min(opens), Max(closes))]
     ELSE [found |-> FALSE, json_str |-> <<>>]

\* str.replace('\\n', '\n'): every backslash followed by n becomes a line feed.
RestoreNewlines(s) ==
  LET F[i \in 1..(Len(s) + 1)] ==
        IF i > Len(s) THEN <<>>
        ELSE IF HasAt(s, i, <<"\\", "n">>)
             THEN <<"\n">> \o F[i + 2]
             ELSE <<s[i]>> \o F[i + 1]
  IN F[1]

(* ------------------------------------------------------------------------ *)
(* json.loads                                                               *)
(* A value is [type, text]: type is "str", "num", "obj" or "lit" (true,     *)
(* false, null) and text is the decoded text of a string (the source text  *)
(* of a number or literal, the members of an object).  The grammar is      *)
(* JSON's without arrays, fractions, exponents and the escapes \b \f \u,   *)
(* none of which the texts here use.                                       *)
(* ------------------------------------------------------------------------ *)

\* The failure of a parse step at position i.
JsonFail(i) == [ok |-> FALSE, val |-> [type |-> "none", text |-> <<>>], next |-> i]

\* What an escape sequence of a JSON string decodes to.
Unescape(c) ==
  CASE c = "n" -> "\n"
    [] c = "t" -> "\t"
    [] c = "r" -> "\r"
    [] OTHER -> c

\* The position of the quote that closes the JSON string whose first
\* character is at i; 0 if the string is malformed: a raw control character
\* (strict mode), an unknown escape, or no closing quote.
JsonStringEnd(s, i) ==
  LET F[p \in 1..(Len(s) + 2)] ==
        IF p > Len(s) THEN 0
        ELSE IF s[p] = "\"" THEN p
        ELSE IF s[p] \in {"\n", "\t", "\r"} THEN 0
        ELSE IF s[p] = "\\"
             THEN IF p + 1 <= Len(s) /\ s[p + 1] \in {"n", "t", "r", "\"", "\\", "/"}
                  THEN F[p + 2] ELSE 0
             ELSE F[p + 1]
  IN F[i]

\* The decoded characters of the JSON string from i to its closing quote at e.
JsonStringText(s, i, e) ==
  LET F[p \in 1..(Len(s) + 2)] ==
        IF p >= e THEN <<>>
        ELSE IF s[p] = "\\" THEN <<Unescape(s[p + 1])>> \o F[p + 2]
        ELSE <<s[p]>> \o F[p + 1]
  IN F[i]

\* A JSON string whose opening quote is at i - 1.
JsonString(s, i) ==
  Eval(JsonStringEnd(s, i), LAMBDA e :
    IF e = 0 THEN JsonFail(i)
    ELSE [ok |-> TRUE, val |-> [type |-> "str", text |-> JsonStringText(s, i, e)],
          next |-> e + 1])

JsonLiterals == {<<"t", "r", "u", "e">>, <<"f", "a", "l", "s", "e">>, <<"n", "u", "l", "l">>}

\* An integer: -?(0|[1-9]\d*)
JsonNumber(s, i) ==
  LET d == IF s[i] = "-" THEN i + 1 ELSE i
      e == IF d <= Len(s) /\ s[d] = "0" THEN d + 1 ELSE SkipClass(s, d, Digits)
  IN IF e > d
     THEN [ok |-> TRUE, val |-> [type |-> "num", text |-> SubSeq(s, i, e - 1)], next |-> e]
     ELSE JsonFail(i)

RECURSIVE JsonValue(_, _)
RECURSIVE JsonMembers(_, _, _)

\* The members of an object from position i (at a key), after the members seen.
JsonMembers(s, i, seen) ==
  IF i > Len(s) \/ s[i] # "\"" THEN JsonFail(i)
  ELSE
    Eval(JsonString(s, i + 1), LAMBDA key :
      Eval(SkipWs(s, key.next), LAMBDA colon :
        IF ~key.ok \/ colon > Len(s) \/ s[colon] # ":" THEN JsonFail(i)
        ELSE
          Eval(JsonValue(s, SkipWs(s, colon + 1)), LAMBDA val :
            Eval(SkipWs(s, val.next), LAMBDA after :
              Eval(Append(seen, [key |-> key.val.text, val |-> val.val]), LAMBDA members :
                IF ~val.ok \/ after > Len(s) THEN JsonFail(i)
                ELSE IF s[after] = "}"
                     THEN [ok |-> TRUE, val |-> [type |-> "obj", text |-> members],
                           next |-> after + 1]
                ELSE IF s[after] = ","
                     THEN JsonMembers(s, SkipWs(s, after + 1), members)
                ELSE JsonFail(after))))))

\* One JSON value at position i.
JsonValue(s, i) ==
  IF i > Len(s) THEN JsonFail(i)
  ELSE IF s[i] = "\"" THEN JsonString(s, i + 1)
  ELSE IF s[i] = "{"
       THEN Eval(SkipWs(s, i + 1), LAMBDA j :
              IF j <= Len(s) /\ s[j] = "}"
              THEN [ok |-> TRUE, val |-> [type |-> "obj", text |-> <<>>], next |-> j + 1]
              ELSE JsonMembers(s, j, <<>>))
  ELSE IF s[i] \in Digits \cup {"-"} THEN JsonNumber(s, i)
  ELSE IF \E l \in JsonLiterals : HasAt(s, i, l)
       THEN LET l == CHOOSE l \in JsonLiterals : HasAt(s, i, l)
            IN [ok |-> TRUE, val |-> [type |-> "lit", text |-> l], next |-> i + Len(l)]
  ELSE JsonFail(i)

\* The dict Python builds from an object's members: a later member of the same
\* key replaces an earlier one.  A nested object keeps its type only.
AsDict(members) ==
  [k \in {members[n].key : n \in 1..Len(members)} |->
     LET v == members[Max({n \in 1..Len(members) : members[n].key = k})].val
     IN IF v.type = "obj" THEN [type |-> "obj", text |-> <<>>] ELSE v]

\* json.loads(json_str) for a text that starts with "{": the dict, or
\* JSONDecodeError (also when text follows the value: "Extra data").
json_loads(json_str) ==
  Eval(JsonValue(json_str, SkipWs(json_str, 1)), LAMBDA v :
    IF v.ok /\ SkipWs(json_str, v.next) = Len(json_str) + 1 /\ v.val.type = "obj"
    THEN [ok |-> TRUE, data |-> Eval(v.val.text, LAMBDA members : AsDict(members))]
    ELSE [ok |-> FALSE, data |-> <<>>])

(* ------------------------------------------------------------------------ *)
(* process_query                                                            *)
(* A mapping is a function from keys (texts) to values.  The text of a      *)
(* message is the sequence of the pieces the source concatenates.           *)
(* ------------------------------------------------------------------------ *)

\* The mapping {"error": <message>}.
ErrorResult(message) == (Lit_error :> [type |-> "str", text |-> message])

\* The JSON value of code once repaired.
CodeValue(code) == [type |-> "str", text |-> code]

NoValue == [type |-> "none", text |-> <<>>]

\* What the try block did when it neither raised nor met a code field.
Returned(ret, step) ==
  [exc |-> FALSE, step |-> step, message |-> "", ret |-> ret,
   has_code |-> FALSE, code_value |-> NoValue, repaired |-> <<>>]

\* The message of the AttributeError of line 181 for a value that is no string.
NoReplace(value) ==
  CASE value.type = "num" -> "'int' object has no attribute 'replace'"
    [] value.type = "obj" -> "'dict' object has no attribute 'replace'"
    [] value.text = <<"n", "u", "l", "l">> -> "'NoneType' object has no attribute 'replace'"
    [] OTHER -> "'bool' object has no attribute 'replace'"

\* Lines 180-190 of process_query for the parsed mapping data.
CodeField(data) ==
  IF Lit_code \notin DOMAIN data THEN Returned(data, "none")
  ELSE IF data[Lit_code].type # "str"
  THEN [exc |-> TRUE, step |-> "restore", message |-> NoReplace(data[Lit_code]),
        ret |-> <<>>, has_code |-> TRUE, code_value |-> data[Lit_code], repaired |-> <<>>]
  ELSE Eval(RestoreNewlines(data[Lit_code].text), LAMBDA restored :
         Eval(post_process_code(restored), LAMBDA repaired :
           [exc |-> FALSE, step |-> "none", message |-> "",
            ret |-> IF StartsWithKeyword(repaired)
                    THEN [data EXCEPT ![Lit_code] = CodeValue(repaired)]
                    ELSE ErrorResult(<<"Invalid diagram syntax">>),
            has_code |-> TRUE, code_value |-> data[Lit_code], repaired |-> repaired]))

\* The try block of process_query for one outcome of llm.invoke: the mapping
\* it returns (exc FALSE), or the exception raised in it (exc TRUE) with the
\* step that raised it.  step "parse" is the JSONDecodeError the inner handler
\* turns into a mapping.  has_code, code_value and repaired record how far the
\* code field got.
TryBody(outcome) ==
  IF outcome.kind = "raise"
  THEN [exc |-> TRUE, step |-> "invoke", message |-> outcome.message, ret |-> <<>>,
        has_code |-> FALSE, code_value |-> NoValue, repaired |-> <<>>]
  ELSE
    Eval(Strip(outcome.content), LAMBDA raw :
      Eval(StripFences(raw), LAMBDA unfenced :
        Eval(NormalizeQuotes(unfenced), LAMBDA cleaned :
          Eval(ExtractJson(cleaned), LAMBDA json_match :
            IF ~json_match.found
            THEN Returned(ErrorResult(
                   <<"Could not find valid JSON in response:\n">> \o cleaned), "none")
            ELSE
              Eval(json_loads(json_match.json_str), LAMBDA parsed :
                IF ~parsed.ok
                THEN Returned(ErrorResult(
                       <<"JSON Error: ", "<JSONDecodeError>", "\nExtracted JSON: ">>
                         \o json_match.json_str), "parse")
                ELSE CodeField(parsed.data))))))

\* process_query as it would be without its `except Exception` clause: an
\* exception of the try block reaches the caller.
process_query_no_except(outcome) ==
  Eval(TryBody(outcome), LAMBDA body :
    [raised |-> body.exc, try |-> body, value |-> body.ret])

\* process_query: the try block under `except Exception`, which turns every
\* exception into a mapping.  raised tells whether an exception reaches the
\* caller, value is the mapping returned, and try is what the try block did.
process_query(outcome) ==
  Eval(TryBody(outcome), LAMBDA body :
    IF body.exc
    THEN [raised |-> FALSE, try |-> body,
          value |-> ErrorResult(<<"Processing Error: ", body.message>>)]
    ELSE [raised |-> FALSE, try |-> body, value |-> body.ret])

(* ------------------------------------------------------------------------ *)
(* generate (the /generate endpoint)                                        *)
(* ------------------------------------------------------------------------ *)

\* Lines 23-29 of generate as they would be if the query were not trimmed
\* before the emptiness test.
RequestVerdict_no_strip(req) ==
  IF ~req.is_json THEN "not_json"
  ELSE IF req.body # "object" THEN "raise"
  ELSE IF req.query.type = "absent" THEN "empty"
  ELSE IF req.query.type # "str" THEN "raise"
  ELSE IF req.query.text = <<>> THEN "empty"
  ELSE "ok"

\* Lines 23-29 of generate for one request: "not_json" and "empty" are the two
\* client errors, "raise" an exception of data.get or .strip(), "ok" a query
\* to forward.
RequestVerdict(req) ==
  IF ~req.is_json THEN "not_json"
  ELSE IF req.body # "object" THEN "raise"
  ELSE IF req.query.type = "absent" THEN "empty"
  ELSE IF req.query.type # "str" THEN "raise"
  ELSE IF Strip(req.query.text) = <<>> THEN "empty"
  ELSE "ok"

\* The response of generate to a request it does not forward.
EarlyResponse(req) ==
  CASE RequestVerdict(req) = "not_json" ->
         [status |-> 400, body |-> ErrorResult(<<"Request must be JSON">>)]
    [] RequestVerdict(req) = "empty" ->
         [status |-> 400, body |-> ErrorResult(<<"Empty query received">>)]
    [] OTHER ->
         [status |-> 500, body |-> ErrorResult(<<"Internal server error">>)]

\* Lines 33-46 of generate for what flowchart_workflow.invoke gave.
FinalResponse(res) ==
  IF res.raised
  THEN [status |-> 500, body |-> ErrorResult(<<"Internal server error">>)]
  ELSE IF Lit_error \in DOMAIN res.value
  THEN [status |-> 400, body |-> res.value]
  ELSE IF ~(Lit_code \in DOMAIN res.value /\ validate_mermaid(res.value[Lit_code].text))
  THEN [status |-> 400, body |-> ErrorResult(<<"Invalid Mermaid syntax">>)]
  ELSE [status |-> 200, body |-> res.value]

(* ------------------------------------------------------------------------ *)
(* Inputs                                                                   *)
(* ------------------------------------------------------------------------ *)

\* The longest body of a code text given to the repair functions, in chunks.
MaxChunks == 3

\* The longest body of a code text inside a completion, in chunks.
MaxPipeChunks == 1

\* The keywords post_process_code has a repair for.
RepairedKeywords ==
  {Kw_classDiagram, Kw_quadrantChart, Kw_sankey, Kw_journey, Kw_xyChart,
   Kw_requirementDiagram}

\* For each repair function, the pieces of text its pattern is about.
ChunkAlphabets ==
  { {<<"\n", "c", "l", "a", "s", "s", " ", "A">>, <<"+", "x">>, <<"{">>},
    {<<"\n", "q", "u", "a", "d", "r", "a", "n", "t">>, <<" ">>, <<"1", ":">>},
    {<<"A">>, <<" ">>, <<"-", "-">>, <<">">>},
    {<<"\n">>, <<"\n", " ", "a", ":">>, <<"b", ":">>},
    {<<"\n", "x", "A", "x", "i", "s">>, <<" ", " ">>, <<"l", "a", "b", "e", "l", ":">>},
    {<<"{">>, <<"}">>, <<" ">>} }

\* The texts made of at most n chunks of one alphabet.
RECURSIVE ChunkTexts(_, _)
ChunkTexts(alphabet, n) ==
  IF n = 0 THEN {<<>>}
  ELSE LET shorter == ChunkTexts(alphabet, n - 1)
       IN shorter \cup {t \o c : t \in shorter, c \in alphabet}

Bodies(n) == UNION {ChunkTexts(a, n) : a \in ChunkAlphabets}

\* What precedes the first word of a code text: nothing, a blank line, or a
\* line of other text.
Leads == {<<>>, <<"\n">>, <<"x", "\n">>}

\* The first word of a code text: a keyword, a word that is none, or nothing.
Heads == Keywords \cup {<<"x">>, <<>>}

\* The examples of the repair rules' descriptions.
Examples ==
  { <<"A", "-", "-", "B">>,
    <<"A", " ", " ", "-", "-", ">", " ", " ", "B">>,
    <<"q", "u", "a", "d", "r", "a", "n", "t", " ", "1", ":">>,
    <<"q", "u", "a", "d", "r", "a", "n", "t", "1", "2", ":">> }

\* The code texts the repair functions are applied to.
Texts ==
  {l \o h \o b : l \in Leads, h \in RepairedKeywords \cup {<<>>},
                 b \in Bodies(MaxChunks)}
  \cup {l \o h \o b : l \in Leads, h \in Heads, b \in Bodies(1)}
  \cup Examples

\* The code texts a completion carries.
PipeCodes == {l \o h \o b : l \in Leads, h \in Heads, b \in Bodies(MaxPipeChunks)}

\* A text as the characters of a JSON string, its line feeds written as the
\* escape \n ("escaped"), as \\n ("double") or left as they are ("raw").
EncodeString(text, enc) ==
  LET piece(c) == IF c # "\n" THEN <<c>>
                  ELSE IF enc = "escaped" THEN <<"\\", "n">>
                  ELSE IF enc = "double" THEN <<"\\", "\\", "n">>
                  ELSE <<c>>
      F[n \in 0..Len(text)] == IF n = 0 THEN <<>> ELSE F[n - 1] \o piece(text[n])
  IN <<"\"">> \o F[Len(text)] \o <<"\"">>

\* The text of an object of one member: the key between the two quote
\* characters given, the value's text, and what follows it before the brace.
ObjectText(q1, key, q2, value, more) ==
  <<"{", q1>> \o key \o <<q2, ":", " ">> \o value \o more \o <<"}">>

\* Code-fence wrappings of a completion.
Fenced(kind, text) ==
  CASE kind = "json" -> Lit_fence \o <<"j", "s", "o", "n", "\n">> \o text \o <<"\n">> \o Lit_fence
    [] kind = "bare" -> Lit_fence \o <<"\n">> \o text \o <<"\n">> \o Lit_fence
    [] OTHER -> text

\* Codes used where the shape of the object is what varies.
ShapeCodes ==
  { <<"g", "r", "a", "p", "h", " ", "T", "D", "\n", "A", " ", "-", "-", ">", " ", "B">>,
    <<"s", "a", "n", "k", "e", "y", "\n", "A", "-", "-", "B">>,
    <<"x">> }

\* Values of a member other than a string.
OtherValues == {<<"5">>, <<"{", "}">>, <<"n", "u", "l", "l">>}

\* A second member, or none.
MoreMembers ==
  { <<>>,
    <<",", " ", "\"">> \o Lit_error \o <<"\"", ":", " ", "\"", "x", "\"">> }

\* The completion texts llm.invoke may return.
Completions ==
  \* the required shape, for every code
  {ObjectText("\"", Lit_code, "\"", EncodeString(c, "escaped"), <<>>) : c \in PipeCodes}
  \* line feeds escaped twice or not at all, and a code fence around the object
  \cup {Fenced(f, ObjectText("\"", Lit_code, "\"", EncodeString(c, e), <<>>)) :
          f \in {"json", "bare", "none"}, c \in ShapeCodes,
          e \in {"escaped", "double", "raw"}}
  \* keys in single quotes, other keys, other values, a second member
  \cup {ObjectText(q1, k, q2, v, m) :
          q1 \in {"\"", "'"}, q2 \in {"\"", "'"}, k \in {Lit_code, <<"x">>},
          v \in {EncodeString(c, "escaped") : c \in ShapeCodes} \cup OtherValues,
          m \in MoreMembers}
  \* no object at all, or no JSON
  \cup { <<"n", "o", "t", " ", "a", " ", "j", "s", "o", "n", " ", "o", "b", "j", "e", "c", "t">>,
         <<"{", "x", "}">>, <<"}", "{">>, <<>> }

\* What the provider's client says when the call fails.
ProviderErrors == {"Connection error.", "Rate limit reached"}

\* The outcomes of llm.invoke.
Outcomes ==
  {[kind |-> "content", content |-> t, message |-> ""] : t \in Completions}
  \cup {[kind |-> "raise", content |-> <<>>, message |-> m] : m \in ProviderErrors}

NoOutcome == [kind |-> "none", content |-> <<>>, message |-> ""]

\* The query field of a request body.
Queries ==
  { [type |-> "absent", text |-> <<>>], [type |-> "num", text |-> <<"5">>],
    [type |-> "str", text |-> <<>>], [type |-> "str", text |-> <<" ", "\n">>],
    [type |-> "str", text |-> <<" ", "p", "i", "e", " ">>] }

\* The requests POSTed to /generate.
Requests ==
  { [is_json |-> FALSE, body |-> "none", query |-> [type |-> "absent", text |-> <<>>]],
    [is_json |-> TRUE, body |-> "array", query |-> [type |-> "absent", text |-> <<>>]] }
  \cup {[is_json |-> TRUE, body |-> "object", query |-> q] : q \in Queries}

NoRequest == [is_json |-> FALSE, body |-> "none", query |-> [type |-> "absent", text |-> <<>>]]

NoResult == [raised |-> FALSE, try |-> Returned(<<>>, "none"), value |-> <<>>]

NoResponse == [status |-> 0, body |-> <<>>]

NoVerdict == [generator |-> FALSE, http |-> FALSE]

(* ------------------------------------------------------------------------ *)
(* State                                                                    *)
(* ------------------------------------------------------------------------ *)

VARIABLES
  pc,          \* where the handling of the request stands
  request,     \* the request POSTed to /generate
  user_input,  \* generate's user_input
  llm_calls,   \* calls of llm.invoke made for the request
  outcome,     \* what llm.invoke gave
  result,      \* what process_query gave its caller, and how
  response,    \* the HTTP response: status and JSON body
  text,        \* the code text a function is applied to
  op,          \* the function applied to text
  once,        \* op(text)
  twice,       \* op(op(text))
  calls,       \* the repair functions post_process_code called
  verdict      \* the two keyword checks of a text

vars ==
  <<pc, request, user_input, llm_calls, outcome, result, response,
    text, op, once, twice, calls, verdict>>

endpointVars == <<pc, request, user_input, llm_calls, outcome, result, response>>

functionVars == <<text, op, once, twice, calls, verdict>>

EndpointInit ==
  /\ pc = "idle"
  /\ request = NoRequest
  /\ user_input = <<>>
  /\ llm_calls = 0
  /\ outcome = NoOutcome
  /\ result = NoResult
  /\ response = NoResponse

FunctionInit ==
  /\ op = "none"
  /\ once = <<>>
  /\ twice = <<>>
  /\ calls = <<>>
  /\ verdict = NoVerdict

(* ------------------------------------------------------------------------ *)
(* The endpoint: one request from its arrival to its response               *)
(* ------------------------------------------------------------------------ *)

Init == EndpointInit /\ FunctionInit /\ text = <<>>

\* generate, lines 22-29 and 44-46: the request is answered without a call of
\* the workflow.
RejectRequest(req) ==
  /\ pc = "idle"
  /\ RequestVerdict(req) # "ok"
  /\ request' = req
  /\ response' = EarlyResponse(req)
  /\ pc' = "done"
  /\ UNCHANGED <<user_input, llm_calls, outcome, result>>
  /\ UNCHANGED functionVars

\* generate, lines 22-31: the query is trimmed and the workflow is invoked.
AcceptRequest(req) ==
  /\ pc = "idle"
  /\ RequestVerdict(req) = "ok"
  /\ request' = req
  /\ user_input' = Strip(req.query.text)
  /\ pc' = "invoking"
  /\ UNCHANGED <<llm_calls, outcome, result, response>>
  /\ UNCHANGED functionVars

\* process_query, lines 152-156: the one call of the provider, which gives a
\* completion or raises.
InvokeLLM(o) ==
  /\ pc = "invoking"
  /\ llm_calls' = llm_calls + 1
  /\ outcome' = o
  /\ pc' = "processing"
  /\ UNCHANGED <<request, user_input, result, response>>
  /\ UNCHANGED functionVars

\* process_query, lines 158-193: the rest of the function.
Normalize ==
  /\ pc = "processing"
  /\ result' = process_query(outcome)
  /\ pc' = "responding"
  /\ UNCHANGED <<request, user_input, llm_calls, outcome, response>>
  /\ UNCHANGED functionVars

\* generate, lines 33-46.
Respond ==
  /\ pc = "responding"
  /\ response' = FinalResponse(result)
  /\ pc' = "done"
  /\ UNCHANGED <<request, user_input, llm_calls, outcome, result>>
  /\ UNCHANGED functionVars

Next ==
  \/ \E req \in Requests : RejectRequest(req)
  \/ \E req \in Requests : AcceptRequest(req)
  \/ \E o \in Outcomes : InvokeLLM(o)
  \/ Normalize
  \/ Respond

Spec == Init /\ [][Next]_vars

(* ------------------------------------------------------------------------ *)
(* The functions on their own: each applied to every text                   *)
(* ------------------------------------------------------------------------ *)

FunctionsInit == EndpointInit /\ FunctionInit /\ text \in Texts

Apply_fix_class_diagram_syntax ==
  /\ op = "none"
  /\ op' = "fix_class_diagram_syntax"
  /\ once' = fix_class_diagram_syntax(text)
  /\ twice' = fix_class_diagram_syntax(once')
  /\ UNCHANGED <<text, calls, verdict>>
  /\ UNCHANGED endpointVars

Apply_fix_quadrant_chart ==
  /\ op = "none"
  /\ op' = "fix_quadrant_chart"
  /\ once' = fix_quadrant_chart(text)
  /\ twice' = fix_quadrant_chart(once')
  /\ UNCHANGED <<text, calls, verdict>>
  /\ UNCHANGED endpointVars

Apply_fix_sankey ==
  /\ op = "none"
  /\ op' = "fix_sankey"
  /\ once' = fix_sankey(text)
  /\ twice' = fix_sankey(once')
  /\ UNCHANGED <<text, calls, verdict>>
  /\ UNCHANGED endpointVars

Apply_fix_journey ==
  /\ op = "none"
  /\ op' = "fix_journey"
  /\ once' = fix_journey(text)
  /\ twice' = fix_journey(once')
  /\ UNCHANGED <<text, calls, verdict>>
  /\ UNCHANGED endpointVars

Apply_fix_xy_chart ==
  /\ op = "none"
  /\ op' = "fix_xy_chart"
  /\ once' = fix_xy_chart(text)
  /\ twice' = fix_xy_chart(once')
  /\ UNCHANGED <<text, calls, verdict>>
  /\ UNCHANGED endpointVars

Apply_fix_requirement_diagram ==
  /\ op = "none"
  /\ op' = "fix_requirement_diagram"
  /\ once' = fix_requirement_diagram(text)
  /\ twice' = fix_requirement_diagram(once')
  /\ UNCHANGED <<text, calls, verdict>>
  /\ UNCHANGED endpointVars

\* post_process_code, and the final validation of what it gives.
Apply_post_process_code ==
  /\ op = "none"
  /\ op' = "post_process_code"
  /\ once' = post_process_code(text)
  /\ twice' = post_process_code(once')
  /\ calls' = PostProcessTrace(text).calls
  /\ verdict' = [generator |-> StartsWithKeyword(once'), http |-> validate_mermaid(once')]
  /\ UNCHANGED text
  /\ UNCHANGED endpointVars

\* The keyword check of process_query and the one of app.py on the same text.
Apply_validate ==
  /\ op = "none"
  /\ op' = "validate"
  /\ verdict' = [generator |-> StartsWithKeyword(text), http |-> validate_mermaid(text)]
  /\ UNCHANGED <<text, once, twice, calls>>
  /\ UNCHANGED endpointVars

FunctionsNext ==
  \/ Apply_fix_class_diagram_syntax
  \/ Apply_fix_quadrant_chart
  \/ Apply_fix_sankey
  \/ Apply_fix_journey
  \/ Apply_fix_xy_chart
  \/ Apply_fix_requirement_diagram
  \/ Apply_post_process_code
  \/ Apply_validate

FunctionsSpec == FunctionsInit /\ [][FunctionsNext]_vars

(* ------------------------------------------------------------------------ *)
(* Properties of the endpoint (checked under Spec)                          *)
(* ------------------------------------------------------------------------ *)

\* process_query has returned to generate.
Returned_to_caller == pc \in {"responding", "done"} /\ llm_calls = 1

\* s holds the literal lit somewhere.
Contains(s, lit) == \E i \in 1..(Len(s) + 1) : HasAt(s, i, lit)

\* s, after a run of whitespace of any length, goes on with a recognized keyword.
KeywordAfterWhitespace(s) ==
  \E n \in 0..Len(s), kw \in Keywords :
    /\ \A i \in 1..n : s[i] \in Whitespace
    /\ n + Len(kw) <= Len(s)
    /\ SubSeq(s, n + 1, n + Len(kw)) = kw

\* C1: process_query never raises to its caller.  For every completion text the
\* call returns a mapping; an exception raised in the try block by any step
\* after the provider's call is returned as {"error": "Processing Error:
\* <message>"}; text without braces and unparsable JSON are answered by the
\* error mappings of their own steps.
C1_NeverRaises ==
  (Returned_to_caller /\ outcome.kind = "content") =>
    /\ ~result.raised
    /\ result.try.exc =>
         result.value = ErrorResult(<<"Processing Error: ", result.try.message>>)
    /\ ~Contains(Strip(outcome.content), <<"{">>) =>
         /\ DOMAIN result.value = {Lit_error}
         /\ result.value[Lit_error].text[1] = "Could not find valid JSON in response:\n"
    /\ result.try.step = "parse" =>
         /\ DOMAIN result.value = {Lit_error}
         /\ result.value[Lit_error].text[1] = "JSON Error: "

\* A completion whose code value is not a string has been answered with the
\* wrapped exception.
C1_Witness ==
  /\ pc = "done"
  /\ outcome.kind = "content"
  /\ result.try.exc
  /\ result.try.step = "restore"
  /\ result.try.code_value.type = "num"
  /\ ~result.raised
  /\ response.status = 400

\* The keyword gate on the text `repaired`, for the value process_query returned.
GateHolds ==
  IF KeywordAfterWhitespace(result.try.repaired)
  THEN /\ Lit_code \in DOMAIN result.value
       /\ result.value[Lit_code] = CodeValue(result.try.repaired)
  ELSE result.value = ErrorResult(<<"Invalid diagram syntax">>)

\* C2 (as amended): whenever the parsed object has a `code` key whose value is
\* a text, process_query returns the repaired code only if it starts, after
\* leading whitespace, with a recognized keyword, and returns exactly
\* {"error": "Invalid diagram syntax"} for every other text.
C2_KeywordGate ==
  (Returned_to_caller /\ result.try.has_code /\ result.try.code_value.type = "str") =>
    /\ result.try.repaired =
         post_process_code(RestoreNewlines(result.try.code_value.text))
    /\ GateHolds

\* C2 (as claimed): the same for every value of the `code` key.
C2_KeywordGate_AnyValue ==
  (Returned_to_caller /\ result.try.has_code) =>
    /\ result.try.code_value.type = "str" => GateHolds
    /\ result.try.code_value.type # "str" =>
         result.value = ErrorResult(<<"Invalid diagram syntax">>)

\* A code whose keyword follows a line feed has passed the gate.
C2_Witness ==
  /\ pc = "done"
  /\ result.try.has_code
  /\ result.try.code_value.type = "str"
  /\ result.try.repaired # <<>>
  /\ result.try.repaired[1] = "\n"
  /\ KeywordAfterWhitespace(result.try.repaired)
  /\ Lit_code \in DOMAIN result.value
  /\ response.status = 200

\* C3: an error raised by the provider's call propagates out of process_query,
\* and generate answers it with status 500 and "Internal server error", so no
\* text of the provider's message reaches the client.
C3_ProviderErrorPropagates ==
  (outcome.kind = "raise") =>
    /\ Returned_to_caller => result.raised
    /\ pc = "done" =>
         response = [status |-> 500, body |-> ErrorResult(<<"Internal server error">>)]

\* C4: the result of process_query carries exactly one of the keys `code` and
\* `error`, whatever the completion text.
C4_ExactlyOneVariant ==
  Returned_to_caller =>
    /\ ~result.raised
    /\ (Lit_code \in DOMAIN result.value) # (Lit_error \in DOMAIN result.value)

\* C7: a completion that is strict JSON except that the key is written in
\* single quotes gives the code it carries, not an error.
C7_SingleQuotedKey ==
  \A c \in ShapeCodes :
    ( /\ Returned_to_caller
      /\ outcome.kind = "content"
      /\ outcome.content = ObjectText("'", Lit_code, "'", EncodeString(c, "escaped"), <<>>)
      /\ KeywordAfterWhitespace(c) ) =>
        /\ Lit_error \notin DOMAIN result.value
        /\ Lit_code \in DOMAIN result.value
        /\ result.value[Lit_code] = CodeValue(post_process_code(c))

\* The request is one generate answers as a client error: no JSON, or a query
\* that is missing or empty once trimmed.
ClientError(req) ==
  \/ ~req.is_json
  \/ /\ req.body = "object"
     /\ \/ req.query.type = "absent"
        \/ /\ req.query.type = "str"
           /\ \A i \in 1..Len(req.query.text) : req.query.text[i] \in Whitespace

\* C9: handling one request calls the provider at most once whatever the
\* outcome, and a request that is not JSON or whose query is empty once
\* trimmed is answered with status 400 without any call.
C9_AtMostOneCall ==
  /\ llm_calls \in {0, 1}
  /\ (pc \in {"idle", "invoking"}) => llm_calls = 0
  /\ (pc # "idle" /\ ClientError(request)) =>
       /\ pc = "done"
       /\ llm_calls = 0
       /\ response.status = 400
       /\ outcome = NoOutcome

\* A query of whitespace only has been answered with status 400 and no call.
C9_Witness ==
  /\ pc = "done"
  /\ request.is_json
  /\ request.query.type = "str"
  /\ request.query.text # <<>>
  /\ response = [status |-> 400, body |-> ErrorResult(<<"Empty query received">>)]
  /\ llm_calls = 0

(* ------------------------------------------------------------------------ *)
(* Properties of the functions (checked under FunctionsSpec)                *)
(* ------------------------------------------------------------------------ *)

Lit_arrow == <<"-", "-", ">">>

RepairNames ==
  {"fix_class_diagram_syntax", "fix_quadrant_chart", "fix_sankey", "fix_journey",
   "fix_xy_chart", "fix_requirement_diagram"}

\* C5: each of the six repair functions, and post_process_code, gives the same
\* text when applied to its own output: R(R(T)) = R(T).
C5_Idempotent ==
  (op \in RepairNames \cup {"post_process_code"}) => twice = once

\* C6: fix_sankey keeps every arrow --> in one piece; "A--B" becomes "A -- B"
\* and "A  -->  B" becomes "A --> B".
C6_SankeyArrows ==
  (op = "fix_sankey") =>
    /\ Contains(text, Lit_arrow) => Contains(once, Lit_arrow)
    /\ text = <<"A", "-", "-", "B">> => once = <<"A", " ", "-", "-", " ", "B">>
    /\ text = <<"A", " ", " ", "-", "-", ">", " ", " ", "B">> =>
         once = <<"A", " ", "-", "-", ">", " ", "B">>

\* C8: validate_mermaid accepts a text exactly when the check of process_query
\* accepts it.
C8_SameCheck ==
  (op \in {"validate", "post_process_code"}) => verdict.http = verdict.generator

\* The repair function listed for a keyword.
ListedRepair(kw) ==
  CASE kw = Kw_classDiagram -> "fix_class_diagram_syntax"
    [] kw = Kw_quadrantChart -> "fix_quadrant_chart"
    [] kw = Kw_sankey -> "fix_sankey"
    [] kw = Kw_journey -> "fix_journey"
    [] kw = Kw_xyChart -> "fix_xy_chart"
    [] kw = Kw_requirementDiagram -> "fix_requirement_diagram"

\* C10 (as amended): post_process_code applies exactly one repair function,
\* the one listed for the keyword, to a code that starts with one of the six
\* keywords at its first character; every other code (of another dialect, or
\* with whitespace before its keyword) is returned unchanged, no repair applied.
C10_Dispatch ==
  (op = "post_process_code") =>
    /\ \A kw \in RepairedKeywords :
         SubSeq(text, 1, Min({Len(text), Len(kw)})) = kw =>
           /\ calls = <<ListedRepair(kw)>>
           /\ once = CallRepair(ListedRepair(kw), text)
    /\ (\A kw \in RepairedKeywords : SubSeq(text, 1, Min({Len(text), Len(kw)})) # kw) =>
         /\ calls = <<>>
         /\ once = text

\* C10 (as claimed): a code the final validation accepts as one of the six
\* repaired dialects, its keyword possibly after whitespace, has had exactly
\* the listed repair applied; a code of another recognized dialect is unchanged.
C10_Dispatch_AfterWhitespace ==
  (op = "post_process_code" /\ verdict.generator) =>
    \A kw \in Keywords :
      HasAt(once, SkipWs(once, 1), kw) =>
        IF kw \in RepairedKeywords
        THEN calls = <<ListedRepair(kw)>>
        ELSE once = text

\* A sankey code after a line feed has been accepted without any repair.
C10_Witness ==
  /\ op = "post_process_code"
  /\ HasAt(text, 1, <<"\n">> \o Kw_sankey)
  /\ Contains(text, <<"-", "-">>)
  /\ verdict.generator
  /\ calls = <<>>
  /\ once = text

====
